---- MODULE Spec2Model ----
(***************************************************************************)
(* secretbox (XSalsa20 + Poly1305 authenticated encryption): Seal, Open,   *)
(* setup and sliceForAppend of src/secretbox/secretbox.go, as a state      *)
(* machine over Go slices, a heap of backing arrays and per-call locals.   *)
(*                                                                         *)
(* Bytes are integers 0..255.  Sequences are 1-based, so Go index i is     *)
(* position i+1 here.  A Go slice is a record [arr, off, len, cap]: the    *)
(* backing array, the 0-based offset of its first element in the array,    *)
(* its length and its capacity.                                            *)
(***************************************************************************)
EXTENDS Integers, Sequences, FiniteSets, TLC

\* ------------------------------------------------------------ sizes
\* onetimeauth.Size, the Poly1305 tag length; Overhead is defined as it.
Size == 16
Overhead == Size
\* nacl.Key and nacl.Nonce are *[32]byte and *[24]byte.
KeySize == 32
NonceSize == 24
\* var hNonce [16]byte / var counter [16]byte
HNonceSize == 16
CounterSize == 16
\* var firstBlock [64]byte, one Salsa20 block
BlockSize == 64
\* var poly1305Key [32]byte; also the "32" of `len(firstMessageBlock) > 32`
HalfBlock == 32
\* counter[8] is the low byte of the little-endian block counter
BlockIndexPos == 8

\* ------------------------------------------------------------ bounds
\* the (key, nonce) pairs, the longest message, the longest out prefix
NumSecrets == 2
MaxMsgLen == 34
MaxOutLen == 1

\* ------------------------------------------------------------ bytes
RECURSIVE Xor(_, _)
\* Go's ^ on two bytes.
Xor(a, b) ==
    IF a = 0 THEN b
    ELSE IF b = 0 THEN a
    ELSE ((a + b) % 2) + 2 * Xor(a \div 2, b \div 2)

\* a byte sequence given as a function on 1..n, as a tuple
Tuple(f) == SubSeq(f, 1, Len(f))

RECURSIVE Pow2(_)
Pow2(n) == IF n = 0 THEN 1 ELSE 2 * Pow2(n - 1)

Zeros(n) == Tuple([i \in 1..n |-> 0])

\* Go's copy(dst, src): min(len) bytes of src over the start of dst.
Copy(dst, src) ==
    Tuple([i \in 1..Len(dst) |-> IF i <= Len(src) THEN src[i] ELSE dst[i]])

RECURSIVE WSumRange(_, _, _, _, _)
\* sum of s[i] * (i + w) for i in lo..hi, modulo m, by halves
WSumRange(s, w, m, lo, hi) ==
    IF lo > hi THEN 0
    ELSE IF lo = hi THEN (s[lo] * (lo + w)) % m
    ELSE LET mid == (lo + hi) \div 2
         IN  (WSumRange(s, w, m, lo, mid) + WSumRange(s, w, m, mid + 1, hi)) % m

\* sum of s[i] * (i + w) over the sequence, modulo m (a mixing helper)
WSum(s, w, m) == WSumRange(Tuple(s), w, m, 1, Len(s))

\* ------------------------------------------------------------ primitives
\* salsa.HSalsa20(out, in *[16]byte, k *[32]byte, c): a 32-byte sub-key that
\* depends on every byte of the 16-byte input and of the key.
HSalsa20(hNonce, key) ==
    LET a == WSum(hNonce, 3, 251)
        b == WSum(key, 5, 241)
    IN  Tuple([i \in 1..KeySize |->
            (key[i] + 7 * hNonce[((i - 1) % HNonceSize) + 1] + 11 * a + 13 * b + i) % 256])

RECURSIVE CtrInc(_, _)
\* the little-endian 64-bit block counter in counter[8..15], plus one
CtrInc(c, i) ==
    IF i > CounterSize THEN c
    ELSE IF c[i] = 255 THEN CtrInc([c EXCEPT ![i] = 0], i + 1)
    ELSE [c EXCEPT ![i] = c[i] + 1]

RECURSIVE AddBlocks(_, _)
AddBlocks(c, n) == IF n = 0 THEN c ELSE AddBlocks(CtrInc(c, BlockIndexPos + 1), n - 1)

\* One Salsa20 block: 64 keystream bytes determined by the key and by all 16
\* bytes of the counter (8 bytes of nonce, then the 8-byte block counter).
SalsaBlock(counter, key) ==
    LET a == WSum(key, 1, 251)
        b == WSum(counter, 2, 239)
    IN  Tuple([j \in 1..BlockSize |->
            (29 * a + 31 * b + 5 * j + 3 * ((j * j) % 64) + 1) % 256])

\* The keystream salsa.XORKeyStream generates for n bytes starting at the block
\* the counter names: block after block, the block counter incremented.
KeyStream(n, counter, key) ==
    LET nb == (n + BlockSize - 1) \div BlockSize
        blocks == Tuple([b \in 1..nb |-> SalsaBlock(AddBlocks(counter, b - 1), key)])
    IN  Tuple([j \in 1..n |-> blocks[((j - 1) \div BlockSize) + 1][((j - 1) % BlockSize) + 1]])

\* salsa.XORKeyStream(out, in, counter, key): in XOR keystream, len(in) bytes.
XORKeyStream(in, counter, key) ==
    LET ks == KeyStream(Len(in), counter, key)
    IN  Tuple([j \in 1..Len(in) |-> Xor(in[j], ks[j])])

\* The one-time authenticator (Poly1305 in the reference primitive), scaled to a
\* prime that fits the integers: r from the key's first half, s from its second
\* half, the message evaluated as a polynomial in r, every byte and the length
\* significant, the result added to s byte by byte.
PolyPrime == 32749
RECURSIVE PowMod(_, _)
\* r^k modulo PolyPrime
PowMod(r, k) ==
    IF k = 0 THEN 1
    ELSE LET h == PowMod(r, k \div 2)
         IN  IF k % 2 = 0 THEN (h * h) % PolyPrime ELSE (((h * h) % PolyPrime) * r) % PolyPrime

RECURSIVE PolyRange(_, _, _, _)
\* the sum of (m[i] + 1) * r^(hi - i + 1) for i in lo..hi, modulo PolyPrime
PolyRange(m, r, lo, hi) ==
    IF lo > hi THEN 0
    ELSE IF lo = hi THEN ((m[lo] + 1) * r) % PolyPrime
    ELSE LET mid == (lo + hi) \div 2
         IN  (PolyRange(m, r, lo, mid) * PowMod(r, hi - mid) + PolyRange(m, r, mid + 1, hi))
                 % PolyPrime

\* the message as a polynomial in r: acc = (acc + m[i] + 1) * r for each byte
PolyAcc(m, r) == PolyRange(Tuple(m), r, 1, Len(m))

Sum(m, key) ==
    LET r == 1 + (WSum(SubSeq(key, 1, Size), 1, PolyPrime - 1))
        acc == PolyAcc(m, r)
    IN  Tuple([j \in 1..Size |->
            ((IF j = 1 THEN acc % 256 ELSE IF j = 2 THEN acc \div 256 ELSE 0)
                + key[Size + j]) % 256])

\* onetimeauth.Verify(mac, m, key): whether mac is the authenticator of m.
Verify(mac, m, key) == mac = Sum(m, key)

\* ------------------------------------------------------------ slices, heap
NilSlice == [arr |-> 0, off |-> 0, len |-> 0, cap |-> 0]

\* s[a:] (legal when a <= len(s)) and s[:b] (legal when b <= cap(s))
SliceFrom(s, a) == [arr |-> s.arr, off |-> s.off + a, len |-> s.len - a, cap |-> s.cap - a]
SliceTo(s, b) == [s EXCEPT !.len = b]

\* the bytes visible through slice s
Read(h, s) == Tuple([i \in 1..s.len |-> h[s.arr][s.off + i]])

\* the 0-based array positions the first n elements of slice s occupy
Cells(s, n) == {<<s.arr, s.off + i>> : i \in 0..(n - 1)}

\* the heap after bytes are stored through slice s, from its first element on
Poke(h, s, bytes) ==
    [h EXCEPT ![s.arr] =
        Tuple([k \in 1..Len(@) |->
            IF k > s.off /\ k <= s.off + Len(bytes) THEN bytes[k - s.off] ELSE @[k]])]

\* make([]byte, total) returns a fresh backing array
NewArray(h) == Len(h) + 1

\* sliceForAppend with `cap(in) > total` for its test
sliceForAppendStrict(in, n, h) ==
    LET total == in.len + n IN
    IF in.cap > total
    THEN LET head == SliceTo(in, total)
         IN  [head |-> head, tail |-> SliceFrom(head, in.len), h |-> h, alloc |-> FALSE]
    ELSE LET id == NewArray(h)
             head == [arr |-> id, off |-> 0, len |-> total, cap |-> total]
         IN  [head |-> head, tail |-> SliceFrom(head, in.len),
              h |-> Append(h, Copy(Zeros(total), Read(h, in))), alloc |-> TRUE]

\* sliceForAppend(in, n): head is in followed by n bytes, tail the n bytes;
\* alloc tells whether a new array was made.
sliceForAppend(in, n, h) ==
    LET total == in.len + n IN
    IF in.cap >= total
    THEN LET head == SliceTo(in, total)
         IN  [head |-> head, tail |-> SliceFrom(head, in.len), h |-> h, alloc |-> FALSE]
    ELSE LET id == NewArray(h)
             head == [arr |-> id, off |-> 0, len |-> total, cap |-> total]
         IN  [head |-> head, tail |-> SliceFrom(head, in.len),
              h |-> Append(h, Copy(Zeros(total), Read(h, in))), alloc |-> TRUE]

\* ------------------------------------------------------------ setup
\* nonce[16:]
NonceTail(nonce) == SubSeq(nonce, HNonceSize + 1, Len(nonce))

\* the counter with the nonce tail in its last 8 bytes instead of its first 8
setupTailLast(counter, nonce, key) ==
    [subKey |-> HSalsa20(Copy(Zeros(HNonceSize), nonce), key),
     counter |-> Tuple([i \in 1..CounterSize |->
                    IF i > BlockIndexPos /\ i - BlockIndexPos <= Len(NonceTail(nonce))
                    THEN NonceTail(nonce)[i - BlockIndexPos] ELSE counter[i]])]

\* setup(subKey, counter, nonce, key): the sub-key and the counter it leaves
setup(counter, nonce, key) ==
    LET hNonce == Copy(Zeros(HNonceSize), nonce)
    IN  [subKey |-> HSalsa20(hNonce, key),
         counter |-> Copy(counter, NonceTail(nonce))]

\* ------------------------------------------------------------ one call
\* A call is run on a machine m = [c, l, h]: c its parameters, program counter,
\* results and bookkeeping, l the frame holding its local variables, h the heap.
\*   c.message   the parameter `message` of Seal, `box` of Open
\*   c.out       the parameter `out` (reassigned by the body)
\*   c.result, c.ok   what the call returned (ok is TRUE for a returned Seal)
\*   c.in0, c.out0, c.arr0   the parameters and out's backing array at the call
\*   c.writes    the heap cells the call has stored to
\*   c.allocs    the number of arrays the call has made
\*   c.trace     the steps the call has executed
\*   c.ksUsed    the keystream bytes combined with message bytes, in message
\*               order: a sequence of [counter, offs], the counter of a keystream
\*               block and the offsets in the block, one entry per block used
\*   c.plain, c.tamper   for an Open: the message that was sealed into the box and
\*               what was done to the box since
ZeroLocals ==
    [subKey |-> Zeros(KeySize), counter |-> Zeros(CounterSize),
     firstBlock |-> Zeros(BlockSize), poly1305Key |-> Zeros(HalfBlock),
     tag |-> Zeros(Size), ret |-> NilSlice, tagOut |-> NilSlice,
     ciphertext |-> NilSlice, firstMessageBlock |-> <<>>]

NoTamper == [kind |-> "none", pos |-> 0, bit |-> 0]

NewCall(op, key, nonce, in, out, arr, plain, tamper, cfg) ==
    [op |-> op, pc |-> IF op = "Seal" THEN "derive" ELSE "checkLen",
     key |-> key, nonce |-> nonce, message |-> in, out |-> out,
     result |-> NilSlice, ok |-> FALSE,
     in0 |-> in, out0 |-> out, arr0 |-> arr,
     writes |-> {}, allocs |-> 0, trace |-> {}, ksUsed |-> <<>>,
     plain |-> plain, tamper |-> tamper, cfg |-> cfg]

Did(m, step) == [m.c EXCEPT !.trace = @ \cup {step}]

\* a run-time panic (index or slice bounds out of range)
Panic(m, step) == [m EXCEPT !.c = [Did(m, step) EXCEPT !.pc = "panic"]]

\* lines 60-71 and 109-120: setup, the first keystream block, the Poly1305 key
Derive(l, nonce, key) ==
    LET s == setup(Zeros(CounterSize), nonce, key)
        firstBlock == XORKeyStream(Zeros(BlockSize), s.counter, s.subKey)
    IN  [l EXCEPT !.subKey = s.subKey, !.counter = s.counter,
                  !.firstBlock = firstBlock,
                  !.poly1305Key = Copy(Zeros(HalfBlock), firstBlock)]

\* firstMessageBlock := message; if len > 32 { firstMessageBlock = [:32] }
FirstMessageBlock(message) ==
    IF Len(message) > HalfBlock THEN SubSeq(message, 1, HalfBlock) ELSE message

\* the index `i` in place of `32+i`
FirstBlockIndexLow(i) == i
\* the index into firstBlock of `firstBlock[32+i] ^ x` (0-based)
FirstBlockIndex(i) == HalfBlock + i

\* counter[8] = 1
ContinuationCounter(counter) == [counter EXCEPT ![BlockIndexPos + 1] = 1]

\* lines 84-86 and 137-139: the loop over firstMessageBlock
XorFirstBlock(firstBlock, fmb) ==
    Tuple([i \in 1..Len(fmb) |-> Xor(firstBlock[FirstBlockIndex(i - 1) + 1], fmb[i])])

\* the keystream bytes the loop over firstMessageBlock uses
FirstPositions(counter, n) ==
    IF n = 0 THEN <<>>
    ELSE <<[counter |-> counter, offs |-> Tuple([i \in 1..n |-> FirstBlockIndex(i - 1)])]>>

\* the keystream bytes XORKeyStream uses for n bytes, block by block
RestPositions(counter, n) ==
    Tuple([b \in 1..((n + BlockSize - 1) \div BlockSize) |->
        [counter |-> AddBlocks(counter, b - 1),
         offs |-> Tuple([j \in 1..(IF b * BlockSize <= n THEN BlockSize
                                    ELSE n - (b - 1) * BlockSize) |-> j - 1])]])

\* ------------------------------------------------------------ Seal
\* len(message) alone
SealAppendLenNoTag(message) == Len(message)
\* len(message)+onetimeauth.Size
SealAppendLen(message) == Len(message) + Size

\* lines 60-71
SealDerive(m) ==
    IF m.c.op # "Seal" \/ m.c.pc # "derive" THEN m
    ELSE [m EXCEPT !.l = Derive(m.l, m.c.nonce, m.c.key),
                   !.c = [Did(m, "derive") EXCEPT !.pc = "slice"]]

\* line 73
SealSlice(m) ==
    IF m.c.op # "Seal" \/ m.c.pc # "slice" THEN m
    ELSE LET r == sliceForAppend(m.c.out, SealAppendLen(m.c.message), m.h)
         IN  [c |-> [Did(m, "slice") EXCEPT
                        !.pc = "xorFirst", !.out = r.tail,
                        !.allocs = IF r.alloc THEN @ + 1 ELSE @,
                        !.writes = IF r.alloc THEN @ \cup Cells(r.head, m.c.out.len) ELSE @],
              l |-> [m.l EXCEPT !.ret = r.head],
              h |-> r.h]

\* lines 77-89
SealXorFirst(m) ==
    IF m.c.op # "Seal" \/ m.c.pc # "xorFirst" THEN m
    ELSE LET fmb == FirstMessageBlock(m.c.message)
             tagOut == m.c.out
         IN  IF tagOut.len < Size \/ tagOut.len - Size < Len(fmb)
             THEN Panic(m, "xorFirst")
             ELSE LET out1 == SliceFrom(tagOut, Size)
                  IN  [c |-> [Did(m, "xorFirst") EXCEPT
                                 !.pc = "xorRest",
                                 !.message = SubSeq(@, Len(fmb) + 1, Len(@)),
                                 !.out = SliceFrom(out1, Len(fmb)),
                                 !.writes = @ \cup Cells(out1, Len(fmb)),
                                 !.ksUsed = @ \o FirstPositions(m.l.counter, Len(fmb))],
                       l |-> [m.l EXCEPT !.firstMessageBlock = fmb, !.tagOut = tagOut,
                                         !.ciphertext = out1],
                       h |-> Poke(m.h, out1, XorFirstBlock(m.l.firstBlock, fmb))]

\* lines 92-93
SealXorRest(m) ==
    IF m.c.op # "Seal" \/ m.c.pc # "xorRest" THEN m
    ELSE LET counter == ContinuationCounter(m.l.counter)
         IN  IF m.c.out.len < Len(m.c.message)
             THEN Panic(m, "xorRest")
             ELSE [c |-> [Did(m, "xorRest") EXCEPT
                             !.pc = "tag",
                             !.writes = @ \cup Cells(m.c.out, Len(m.c.message)),
                             !.ksUsed = @ \o RestPositions(counter, Len(m.c.message))],
                   l |-> [m.l EXCEPT !.counter = counter],
                   h |-> Poke(m.h, m.c.out, XORKeyStream(m.c.message, counter, m.l.subKey))]

\* `out`, the continuation segment alone, in place of `ciphertext`
SealTaggedRest(m) == m.c.out
\* the slice onetimeauth.Sum is given on line 95
SealTagged(m) == m.l.ciphertext

\* lines 95-96
SealTag(m) ==
    IF m.c.op # "Seal" \/ m.c.pc # "tag" THEN m
    ELSE LET tag == Sum(Read(m.h, SealTagged(m)), m.l.poly1305Key)
             n == IF m.l.tagOut.len < Size THEN m.l.tagOut.len ELSE Size
         IN  [c |-> [Did(m, "tag") EXCEPT
                        !.pc = "ret", !.writes = @ \cup Cells(m.l.tagOut, n)],
              l |-> [m.l EXCEPT !.tag = tag],
              h |-> Poke(m.h, m.l.tagOut, SubSeq(tag, 1, n))]

\* line 98
SealRet(m) ==
    IF m.c.op # "Seal" \/ m.c.pc # "ret" THEN m
    ELSE [m EXCEPT !.c = [Did(m, "ret") EXCEPT
                             !.pc = "done", !.result = m.l.ret, !.ok = TRUE]]

\* ------------------------------------------------------------ Open
\* no length check
TooShortNever(box) == FALSE
\* if len(box) < Overhead
TooShort(box) == Len(box) < Overhead

\* lines 105-107
OpenCheckLen(m) ==
    IF m.c.op # "Open" \/ m.c.pc # "checkLen" THEN m
    ELSE IF TooShort(m.c.message)
         THEN [m EXCEPT !.c = [Did(m, "checkLen") EXCEPT
                                  !.pc = "done", !.result = NilSlice, !.ok = FALSE]]
         ELSE [m EXCEPT !.c = [Did(m, "checkLen") EXCEPT !.pc = "derive"]]

\* lines 109-122
OpenDerive(m) ==
    IF m.c.op # "Open" \/ m.c.pc # "derive" THEN m
    ELSE [m EXCEPT !.l = [Derive(m.l, m.c.nonce, m.c.key) EXCEPT
                             !.tag = Copy(Zeros(Size), m.c.message)],
                   !.c = [Did(m, "derive") EXCEPT !.pc = "verify"]]

\* box[onetimeauth.Size:], what the tag is verified against
OpenAuthenticated(box) == SubSeq(box, Size + 1, Len(box))

\* the condition without its `!`
RejectsValid(tag, body, key) == Verify(tag, body, key)
\* the condition of line 124: whether the box is rejected
Rejects(tag, body, key) == ~Verify(tag, body, key)

\* line 125 without its return
OpenRejectFallThrough(m) == [m EXCEPT !.c = [Did(m, "verify") EXCEPT !.pc = "slice"]]
\* line 125: return nil, false
OpenReject(m) ==
    [m EXCEPT !.c = [Did(m, "verify") EXCEPT
                        !.pc = "done", !.result = NilSlice, !.ok = FALSE]]

\* lines 124-126
OpenVerify(m) ==
    IF m.c.op # "Open" \/ m.c.pc # "verify" THEN m
    ELSE IF Len(m.c.message) < Size
         THEN Panic(m, "verify")
         ELSE IF Rejects(m.l.tag, OpenAuthenticated(m.c.message), m.l.poly1305Key)
              THEN OpenReject(m)
              ELSE [m EXCEPT !.c = [Did(m, "verify") EXCEPT !.pc = "slice"]]

\* len(box)-Overhead
OpenAppendLen(box) == Len(box) - Overhead

\* line 128
OpenSlice(m) ==
    IF m.c.op # "Open" \/ m.c.pc # "slice" THEN m
    ELSE LET r == sliceForAppend(m.c.out, OpenAppendLen(m.c.message), m.h)
         IN  [c |-> [Did(m, "slice") EXCEPT
                        !.pc = "xorFirst", !.out = r.tail,
                        !.allocs = IF r.alloc THEN @ + 1 ELSE @,
                        !.writes = IF r.alloc THEN @ \cup Cells(r.head, m.c.out.len) ELSE @],
              l |-> [m.l EXCEPT !.ret = r.head],
              h |-> r.h]

\* box left whole
OpenBodyWithTag(box) == box
\* box = box[Overhead:]
OpenBody(box) == SubSeq(box, Overhead + 1, Len(box))

\* lines 132-142
OpenXorFirst(m) ==
    IF m.c.op # "Open" \/ m.c.pc # "xorFirst" THEN m
    ELSE LET box == OpenBody(m.c.message)
             fmb == FirstMessageBlock(box)
         IN  IF m.c.out.len < Len(fmb)
             THEN Panic(m, "xorFirst")
             ELSE [c |-> [Did(m, "xorFirst") EXCEPT
                             !.pc = "xorRest",
                             !.message = SubSeq(box, Len(fmb) + 1, Len(box)),
                             !.out = SliceFrom(@, Len(fmb)),
                             !.writes = @ \cup Cells(m.c.out, Len(fmb)),
                             !.ksUsed = @ \o FirstPositions(m.l.counter, Len(fmb))],
                   l |-> [m.l EXCEPT !.firstMessageBlock = fmb],
                   h |-> Poke(m.h, m.c.out, XorFirstBlock(m.l.firstBlock, fmb))]

\* lines 145-146
OpenXorRest(m) ==
    IF m.c.op # "Open" \/ m.c.pc # "xorRest" THEN m
    ELSE LET counter == ContinuationCounter(m.l.counter)
         IN  IF m.c.out.len < Len(m.c.message)
             THEN Panic(m, "xorRest")
             ELSE [c |-> [Did(m, "xorRest") EXCEPT
                             !.pc = "ret",
                             !.writes = @ \cup Cells(m.c.out, Len(m.c.message)),
                             !.ksUsed = @ \o RestPositions(counter, Len(m.c.message))],
                   l |-> [m.l EXCEPT !.counter = counter],
                   h |-> Poke(m.h, m.c.out, XORKeyStream(m.c.message, counter, m.l.subKey))]

\* line 148
OpenRet(m) ==
    IF m.c.op # "Open" \/ m.c.pc # "ret" THEN m
    ELSE [m EXCEPT !.c = [Did(m, "ret") EXCEPT
                             !.pc = "done", !.result = m.l.ret, !.ok = TRUE]]

\* a whole call, run with nothing else running
RunSeal(m) == SealRet(SealTag(SealXorRest(SealXorFirst(SealSlice(SealDerive(m))))))
RunOpen(m) ==
    OpenRet(OpenXorRest(OpenXorFirst(OpenSlice(OpenVerify(OpenDerive(OpenCheckLen(m)))))))

\* ------------------------------------------------------------ the callers
VARIABLES
    procs,   \* the goroutines making calls
    calls,   \* calls[p]: the call goroutine p is in (or has returned from)
    locals,  \* locals[f]: the local variables held in frame f
    heap     \* the backing arrays, by array id

vars == <<procs, calls, locals, heap>>

\* one frame for every call (package-level variables)
FrameShared(p) == 1
\* the frame holding the locals of p's call: declared in the function body
\* (`var subKey [32]byte`, ...), so one per call
Frame(p) == p

Key(seed) == Tuple([i \in 1..KeySize |-> (53 * seed + 7 * i) % 256])
Nonce(seed) == Tuple([i \in 1..NonceSize |-> (91 * seed + 13 * i + 5) % 256])
Message(n, seed) == Tuple([i \in 1..n |-> (17 * i + 3 + seed) % 256])

MsgLens == {0, 1, HalfBlock, HalfBlock + 1, MaxMsgLen}
ParMsgLens == {1, HalfBlock + 1}
CapModes == {"short", "exact", "roomy"}
ParCapModes == {"short", "roomy"}

\* the capacity of an out buffer of length ol, for n bytes to append
CapFor(mode, ol, n) ==
    IF mode = "exact" THEN ol + n
    ELSE IF mode = "roomy" THEN ol + n + 1
    ELSE IF n > 0 THEN ol + n - 1 ELSE ol

\* a caller's out buffer: ol bytes of content, the spare capacity filled
OutArray(ol, cap, seed) ==
    Tuple([i \in 1..cap |-> IF i <= ol THEN (40 + 3 * i + seed) % 256 ELSE 170])

InitCall(p, k, n, len, ol, mode) ==
    LET cap == CapFor(mode, ol, len + Overhead)
    IN  NewCall("Seal", Key(k), Nonce(n), Message(len, p),
                [arr |-> p, off |-> 0, len |-> ol, cap |-> cap],
                OutArray(ol, cap, p), <<>>, NoTamper, [mode |-> mode, ol |-> ol])

Init ==
    /\ procs = {1}
    /\ \E s \in 1..NumSecrets, len \in MsgLens, ol \in {0, MaxOutLen}, mode \in CapModes :
          calls = [p \in procs |-> InitCall(p, s, s, len, ol, mode)]
    /\ locals = [f \in procs |-> ZeroLocals]
    /\ heap = [p \in 1..Cardinality(procs) |-> calls[p].arr0]

InitPar ==
    /\ procs = {1, 2}
    /\ \E len \in [procs -> ParMsgLens], mode \in [procs -> ParCapModes] :
          calls = [p \in procs |-> InitCall(p, p, p, len[p], MaxOutLen, mode[p])]
    /\ locals = [f \in procs |-> ZeroLocals]
    /\ heap = [p \in 1..Cardinality(procs) |-> calls[p].arr0]

Machine(p) == [c |-> calls[p], l |-> locals[Frame(p)], h |-> heap]

Commit(p, m) ==
    /\ calls' = [calls EXCEPT ![p] = m.c]
    /\ locals' = [locals EXCEPT ![Frame(p)] = m.l]
    /\ heap' = m.h
    /\ UNCHANGED procs

At(p, op, pc) == calls[p].op = op /\ calls[p].pc = pc

SealDeriveStep == \E p \in procs : At(p, "Seal", "derive") /\ Commit(p, SealDerive(Machine(p)))
SealSliceStep == \E p \in procs : At(p, "Seal", "slice") /\ Commit(p, SealSlice(Machine(p)))
SealXorFirstStep ==
    \E p \in procs : At(p, "Seal", "xorFirst") /\ Commit(p, SealXorFirst(Machine(p)))
SealXorRestStep ==
    \E p \in procs : At(p, "Seal", "xorRest") /\ Commit(p, SealXorRest(Machine(p)))
SealTagStep == \E p \in procs : At(p, "Seal", "tag") /\ Commit(p, SealTag(Machine(p)))
SealRetStep == \E p \in procs : At(p, "Seal", "ret") /\ Commit(p, SealRet(Machine(p)))

OpenCheckLenStep ==
    \E p \in procs : At(p, "Open", "checkLen") /\ Commit(p, OpenCheckLen(Machine(p)))
OpenDeriveStep == \E p \in procs : At(p, "Open", "derive") /\ Commit(p, OpenDerive(Machine(p)))
OpenVerifyStep == \E p \in procs : At(p, "Open", "verify") /\ Commit(p, OpenVerify(Machine(p)))
OpenSliceStep == \E p \in procs : At(p, "Open", "slice") /\ Commit(p, OpenSlice(Machine(p)))
OpenXorFirstStep ==
    \E p \in procs : At(p, "Open", "xorFirst") /\ Commit(p, OpenXorFirst(Machine(p)))
OpenXorRestStep ==
    \E p \in procs : At(p, "Open", "xorRest") /\ Commit(p, OpenXorRest(Machine(p)))
OpenRetStep == \E p \in procs : At(p, "Open", "ret") /\ Commit(p, OpenRet(Machine(p)))

\* the box with bit `bit` of its byte `pos` flipped
FlipBit(box, pos, bit) == [box EXCEPT ![pos] = Xor(@, Pow2(bit))]

Tamper(box, t) ==
    IF t.kind = "flip" THEN FlipBit(box, t.pos, t.bit)
    ELSE IF t.kind = "trunc" THEN SubSeq(box, 1, t.pos)
    ELSE box

\* the bits flipped in a byte: each of the eight in the boxes of the shortest
\* messages, the lowest and the highest in the longer boxes
FlipBits(box) == IF Len(box) <= Overhead + 1 THEN 0..7 ELSE {0, 7}

AllTampers(box) ==
    {NoTamper}
        \cup {[kind |-> "flip", pos |-> i, bit |-> b] : i \in 1..Len(box), b \in FlipBits(box)}
        \cup {[kind |-> "trunc", pos |-> n, bit |-> 0] : n \in 0..(Len(box) - 1)}

ParTampers(box) ==
    {t \in AllTampers(box) :
        \/ t.kind = "none"
        \/ t.kind = "flip" /\ t.bit = 0 /\ t.pos \in {1, Len(box)}
        \/ t.kind = "trunc" /\ t.pos = Overhead - 1}

\* The caller takes the box Seal returned (ret[len(out):]), possibly damages it,
\* and calls Open on it with the same nonce and key and an out buffer of its own.
StartOpen ==
    \E p \in procs :
        /\ At(p, "Seal", "done")
        /\ LET c == calls[p]
               sealed == Read(heap, c.result)
               box0 == SubSeq(sealed, c.out0.len + 1, Len(sealed))
           IN  \E t \in (IF Cardinality(procs) = 1 THEN AllTampers(box0) ELSE ParTampers(box0)) :
                  LET box == Tamper(box0, t)
                      n == IF Len(box) < Overhead THEN 0 ELSE Len(box) - Overhead
                      cap == CapFor(c.cfg.mode, c.cfg.ol, n)
                      arr == OutArray(c.cfg.ol, cap, p + 2)
                      out == [arr |-> Len(heap) + 1, off |-> 0, len |-> c.cfg.ol, cap |-> cap]
                  IN  /\ calls' = [calls EXCEPT ![p] =
                                     NewCall("Open", c.key, c.nonce, box, out, arr,
                                             c.in0, t, c.cfg)]
                      /\ locals' = [locals EXCEPT ![Frame(p)] = ZeroLocals]
                      /\ heap' = Append(heap, arr)
                      /\ UNCHANGED procs

Next ==
    \/ SealDeriveStep \/ SealSliceStep \/ SealXorFirstStep
    \/ SealXorRestStep \/ SealTagStep \/ SealRetStep
    \/ StartOpen
    \/ OpenCheckLenStep \/ OpenDeriveStep \/ OpenVerifyStep \/ OpenSliceStep
    \/ OpenXorFirstStep \/ OpenXorRestStep \/ OpenRetStep

Spec == Init /\ [][Next]_vars
SpecPar == InitPar /\ [][Next]_vars

\* ------------------------------------------------------------ properties
IsSeal(p) == calls[p].op = "Seal"
IsOpen(p) == calls[p].op = "Open"
Done(p) == calls[p].pc = "done"
Panicked(p) == calls[p].pc = "panic"

\* the bytes a returned call handed back
Returned(p) == Read(heap, calls[p].result)

\* the contents out had when the call was made
Prefix(p) == SubSeq(calls[p].arr0, 1, calls[p].out0.len)

\* the box a returned Seal produced: what follows the caller's prefix
SealedBox(p) == SubSeq(Returned(p), calls[p].out0.len + 1, Len(Returned(p)))

\* block 0 of the keystream for (key, nonce), and the authenticator key in it
Block0(key, nonce) ==
    LET s == setup(Zeros(CounterSize), nonce, key)
    IN  KeyStream(BlockSize, s.counter, s.subKey)
AuthKey(key, nonce) == SubSeq(Block0(key, nonce), 1, HalfBlock)

\* whether the box carries the authenticator of its body under (key, nonce)
ValidBox(box, key, nonce) ==
    LET k == AuthKey(key, nonce) IN
    /\ Len(box) >= Overhead
    /\ Len(k) = HalfBlock
    /\ SubSeq(box, 1, Overhead) = Sum(SubSeq(box, Overhead + 1, Len(box)), k)

\* C1: an undamaged box opened with the nonce and key it was sealed with, into
\* an out buffer that does not overlap it, gives back the sealed message (after
\* out's contents) and true, for every message length; no step panics.
RoundTrip ==
    \A p \in procs :
        /\ ~Panicked(p)
        /\ (IsOpen(p) /\ Done(p) /\ calls[p].tamper.kind = "none") =>
              /\ calls[p].ok
              /\ Returned(p) = Prefix(p) \o calls[p].plain

RoundTripWitness ==
    \E p \in procs :
        /\ IsOpen(p) /\ Done(p) /\ calls[p].tamper.kind = "none" /\ calls[p].ok
        /\ Len(calls[p].plain) > HalfBlock
        /\ Returned(p) = Prefix(p) \o calls[p].plain

\* C2: when the authenticator rejects the box's tag, Open returns (nil, false),
\* has made no array and has stored to no cell, out's array (length and spare
\* capacity) is as it was; every store of an Open follows a verification that
\* accepted the box.
AuthenticateThenDecrypt ==
    \A p \in procs : IsOpen(p) =>
        LET c == calls[p]
            valid == ValidBox(c.in0, c.key, c.nonce)
            untouched ==
                /\ c.writes = {} /\ c.allocs = 0
                /\ heap[c.out0.arr] = c.arr0
                /\ c.pc \in {"checkLen", "derive", "verify", "done"}
                /\ c.trace \subseteq {"checkLen", "derive", "verify"}
                /\ Done(p) => (c.result = NilSlice /\ ~c.ok)
        IN  \* a rejected box leaves everything untouched
            /\ untouched \/ Len(c.in0) < Overhead \/ valid
            /\ (c.writes # {} \/ c.allocs > 0 \/ heap[c.out0.arr] # c.arr0) =>
                  ("verify" \in c.trace /\ valid)

AuthenticateThenDecryptWitness ==
    \E p \in procs :
        /\ IsOpen(p) /\ Done(p) /\ calls[p].tamper.kind = "flip"
        /\ "verify" \in calls[p].trace
        /\ calls[p].result = NilSlice /\ ~calls[p].ok
        /\ calls[p].out0.cap > calls[p].out0.len
        /\ heap[calls[p].out0.arr] = calls[p].arr0

\* C3: Seal returns out's contents, unchanged, followed by exactly
\* len(message) + Overhead bytes (Overhead bytes for the empty message); an Open
\* that succeeds returns out's contents followed by exactly len(box) - Overhead
\* bytes.
AppendLength ==
    \A p \in procs :
        LET c == calls[p] IN
        /\ IsSeal(p) => ~Panicked(p)
        /\ (IsSeal(p) /\ Done(p)) =>
              /\ c.ok
              /\ Len(Returned(p)) = c.out0.len + Len(c.in0) + Overhead
              /\ SubSeq(Returned(p), 1, c.out0.len) = Prefix(p)
              /\ Len(SealedBox(p)) = Len(c.in0) + Overhead
        /\ (IsOpen(p) /\ Done(p) /\ c.ok) =>
              /\ Len(Returned(p)) = c.out0.len + Len(c.in0) - Overhead
              /\ SubSeq(Returned(p), 1, c.out0.len) = Prefix(p)

AppendLengthWitness ==
    \E p \in procs :
        /\ IsSeal(p) /\ Done(p) /\ calls[p].in0 = <<>>
        /\ calls[p].out0.len > 0
        /\ Len(SealedBox(p)) = Overhead
        /\ SubSeq(Returned(p), 1, calls[p].out0.len) = Prefix(p)

\* C4: Open of a box shorter than Overhead returns (nil, false) at its length
\* check: nothing derived, no keystream, no verification, no array made, no
\* store; and no Open, whatever the box, indexes out of bounds.
UndersizedRejected ==
    \A p \in procs : IsOpen(p) =>
        LET c == calls[p] IN
        /\ ~Panicked(p)
        /\ Len(c.in0) < Overhead =>
              /\ c.pc \in {"checkLen", "done"}
              /\ c.trace \subseteq {"checkLen"}
              /\ locals[Frame(p)] = ZeroLocals
              /\ c.writes = {} /\ c.allocs = 0
              /\ heap[c.out0.arr] = c.arr0
              /\ Done(p) => (c.result = NilSlice /\ ~c.ok)

UndersizedRejectedWitness ==
    \E p \in procs :
        /\ IsOpen(p) /\ Done(p) /\ Len(calls[p].in0) = Overhead - 1
        /\ calls[p].trace = {"checkLen"}
        /\ calls[p].result = NilSlice /\ ~calls[p].ok

\* C5: a sealed box with exactly one bit flipped, in the tag or in the body, is
\* not opened: Open returns (nil, false).
TamperDetected ==
    \A p \in procs :
        (IsOpen(p) /\ calls[p].tamper.kind = "flip") =>
            /\ calls[p].pc \in {"checkLen", "derive", "verify", "done"}
            /\ Done(p) => (calls[p].result = NilSlice /\ ~calls[p].ok)

TamperDetectedWitness ==
    \E p \in procs :
        /\ IsOpen(p) /\ Done(p) /\ calls[p].tamper.kind = "flip"
        /\ calls[p].tamper.pos > Overhead + HalfBlock
        /\ "verify" \in calls[p].trace /\ ~calls[p].ok

\* the call p is in, as made: run from its start with nothing else running, on a
\* heap that holds only its out buffer
Alone(p) ==
    LET c == calls[p]
        m0 == [c |-> NewCall(c.op, c.key, c.nonce, c.in0, [c.out0 EXCEPT !.arr = 1],
                             c.arr0, c.plain, c.tamper, c.cfg),
               l |-> ZeroLocals,
               h |-> <<c.arr0>>]
    IN  IF c.op = "Seal" THEN RunSeal(m0) ELSE RunOpen(m0)

\* C6: with calls running in parallel, interleaved step by step, every call
\* returns what it returns when run alone (the same bytes, the same ok, the same
\* allocation), no call panics, and no two calls store to the same cell.
ParallelSafe ==
    /\ \A p \in procs :
          /\ ~Panicked(p)
          /\ Done(p) =>
                LET a == Alone(p) IN
                /\ a.c.pc = "done"
                /\ calls[p].ok = a.c.ok
                /\ calls[p].allocs = a.c.allocs
                /\ Returned(p) = Read(a.h, a.c.result)
    /\ \A p, q \in procs : p # q => calls[p].writes \cap calls[q].writes = {}

ParallelSafeWitness ==
    /\ IsOpen(1) /\ Done(1) /\ calls[1].ok /\ calls[1].tamper.kind = "none"
    /\ IsSeal(2) /\ calls[2].pc = "xorRest"
    /\ Len(calls[1].plain) > HalfBlock

\* the <<counter, offset>> pairs of the keystream bytes a call has used, and how
\* many uses there were
RECURSIVE UsedCount(_)
UsedCount(used) ==
    IF used = <<>> THEN 0 ELSE Len(used[1].offs) + UsedCount(Tail(used))
UsedSet(used) ==
    UNION {{<<used[b].counter, used[b].offs[i]>> : i \in 1..Len(used[b].offs)} :
              b \in 1..Len(used)}

\* what message byte i is combined with: byte 32+i of block 0 for the first 32
\* bytes, then the keystream under the same sub-key with block index 1
LayoutByte(key, nonce, i) ==
    LET s == setup(Zeros(CounterSize), nonce, key)
    IN  IF i <= HalfBlock
        THEN KeyStream(BlockSize, s.counter, s.subKey)[HalfBlock + i]
        ELSE KeyStream(i - HalfBlock, [s.counter EXCEPT ![BlockIndexPos + 1] = 1],
                       s.subKey)[i - HalfBlock]

Layout(key, nonce, n) == Tuple([i \in 1..n |-> LayoutByte(key, nonce, i)])

XorSeq(a, b) == Tuple([i \in 1..Len(a) |-> Xor(a[i], b[i])])

\* C7: the authenticator key is bytes 0..31 of keystream block 0; body byte i is
\* message byte i XOR byte 32+i of block 0 for i < 32, and XOR byte i-32 of the
\* keystream with block index 1 for i >= 32; Open inverts it; every message byte
\* uses a keystream byte of its own, none of them a byte of the authenticator key.
KeystreamLayout ==
    \A p \in procs :
        LET c == calls[p]
            n == IF IsSeal(p) THEN Len(c.in0) ELSE Len(c.in0) - Overhead
            s == setup(Zeros(CounterSize), c.nonce, c.key)
        IN  (Done(p) /\ c.ok) =>
              /\ locals[Frame(p)].poly1305Key = AuthKey(c.key, c.nonce)
              /\ IsSeal(p) =>
                    SubSeq(SealedBox(p), Overhead + 1, Overhead + n)
                        = XorSeq(c.in0, Layout(c.key, c.nonce, n))
              /\ IsOpen(p) =>
                    SubSeq(Returned(p), c.out0.len + 1, c.out0.len + n)
                        = XorSeq(SubSeq(c.in0, Overhead + 1, Len(c.in0)),
                                 Layout(c.key, c.nonce, n))
              /\ UsedCount(c.ksUsed) = n
              /\ Cardinality(UsedSet(c.ksUsed)) = n
              /\ \A u \in UsedSet(c.ksUsed) : ~(u[1] = s.counter /\ u[2] < HalfBlock)

KeystreamLayoutWitness ==
    \E p \in procs :
        /\ IsSeal(p) /\ Done(p) /\ Len(calls[p].in0) > HalfBlock + 1
        /\ Len(calls[p].ksUsed) = 2
        /\ SealedBox(p)[Overhead + HalfBlock + 2]
              = Xor(calls[p].in0[HalfBlock + 2], LayoutByte(calls[p].key, calls[p].nonce, HalfBlock + 2))

\* the call's sub-key and counter are those setup left: from setup to `counter[8] = 1`
AfterSetup(p) ==
    /\ "derive" \in calls[p].trace
    /\ "xorRest" \notin calls[p].trace

\* C8 as claimed: the sub-key comes from the key and the first 16 bytes of the
\* nonce; the counter's first 8 bytes are zero and its last 8 bytes are the
\* nonce's bytes 16..23.
SetupLowZero ==
    \A p \in procs : AfterSetup(p) =>
        LET l == locals[Frame(p)] IN
        /\ l.subKey = HSalsa20(SubSeq(calls[p].nonce, 1, HNonceSize), calls[p].key)
        /\ \A i \in 1..8 : l.counter[i] = 0
        /\ \A i \in 1..8 : l.counter[8 + i] = calls[p].nonce[HNonceSize + i]

\* C8 amended: the sub-key comes from the key and the first 16 bytes of the nonce;
\* the counter's first 8 bytes (indices 0..7) are the nonce's bytes 16..23 and
\* its last 8 bytes (indices 8..15, the block counter) are zero.
SetupDerivation ==
    \A p \in procs : AfterSetup(p) =>
        LET l == locals[Frame(p)] IN
        /\ l.subKey = HSalsa20(SubSeq(calls[p].nonce, 1, HNonceSize), calls[p].key)
        /\ \A i \in 1..8 : l.counter[i] = calls[p].nonce[HNonceSize + i]
        /\ \A i \in 1..8 : l.counter[8 + i] = 0

SetupDerivationWitness ==
    \E p \in procs :
        /\ IsOpen(p) /\ calls[p].pc = "verify"
        /\ locals[Frame(p)].counter[1] # 0
        /\ locals[Frame(p)].counter[1] = calls[p].nonce[HNonceSize + 1]
        /\ locals[Frame(p)].subKey # Zeros(KeySize)

\* C9: the box Seal returns is the tag followed by the body; the tag is Sum of
\* the whole body (not of the tag bytes) under the authenticator key, computed
\* once both segments of the body are written; Open accepts a box exactly when its
\* first Overhead bytes are Sum of the bytes after them under the authenticator
\* key of the same (key, nonce).
TagCoverage ==
    \A p \in procs :
        LET c == calls[p] IN
        /\ (IsSeal(p) /\ "tag" \in c.trace) =>
              /\ {"xorFirst", "xorRest"} \subseteq c.trace
              /\ locals[Frame(p)].ciphertext.len = Len(c.in0)
              /\ locals[Frame(p)].tag
                    = Sum(Read(heap, locals[Frame(p)].ciphertext), AuthKey(c.key, c.nonce))
        /\ (IsSeal(p) /\ Done(p)) =>
              /\ SubSeq(SealedBox(p), 1, Overhead) = locals[Frame(p)].tag
              /\ SubSeq(SealedBox(p), Overhead + 1, Len(SealedBox(p)))
                    = Read(heap, locals[Frame(p)].ciphertext)
        /\ (IsOpen(p) /\ "verify" \in c.trace) =>
              ((c.pc # "done" \/ c.ok) <=> ValidBox(c.in0, c.key, c.nonce))

TagCoverageWitness ==
    \E p \in procs :
        /\ IsSeal(p) /\ Done(p) /\ Len(calls[p].in0) > HalfBlock
        /\ ValidBox(SealedBox(p), calls[p].key, calls[p].nonce)

\* the bytes sliceForAppend was asked for
Appended(p) ==
    IF IsSeal(p) THEN Len(calls[p].in0) + Overhead ELSE Len(calls[p].in0) - Overhead

\* the head sliceForAppend returned to the call
HeadOf(p) == IF Done(p) THEN calls[p].result ELSE locals[Frame(p)].ret

\* C10: when cap(out) >= len(out) + n, sliceForAppend makes no array and the n
\* bytes go to out's own array at positions len(out)..len(out)+n-1; when it is
\* smaller, an array of exactly len(out) + n bytes is made, out's contents are
\* copied to its start and no byte of out's array is stored to.  Either way the
\* first len(out) bytes seen through out are unchanged.
CapacityReuse ==
    \A p \in procs :
        LET c == calls[p]
            n == Appended(p)
            total == c.out0.len + n
        IN  ("slice" \in c.trace /\ ~Panicked(p)) =>
              /\ SubSeq(heap[c.out0.arr], 1, c.out0.len) = Prefix(p)
              /\ IF c.out0.cap >= total
                 THEN /\ c.allocs = 0
                      /\ HeadOf(p) = [c.out0 EXCEPT !.len = total]
                      /\ c.writes \subseteq
                            {<<c.out0.arr, k>> : k \in c.out0.len..(total - 1)}
                 ELSE /\ c.allocs = 1
                      /\ HeadOf(p).arr # c.out0.arr
                      /\ HeadOf(p).len = total
                      /\ Len(heap[HeadOf(p).arr]) = total
                      /\ SubSeq(heap[HeadOf(p).arr], 1, c.out0.len) = Prefix(p)
                      /\ heap[c.out0.arr] = c.arr0
                      /\ \A w \in c.writes : w[1] # c.out0.arr

CapacityReuseWitness ==
    \E p \in procs :
        /\ IsSeal(p) /\ Done(p)
        /\ calls[p].out0.cap = calls[p].out0.len + Appended(p)
        /\ calls[p].out0.len > 0
        /\ calls[p].allocs = 0
        /\ calls[p].result.arr = calls[p].out0.arr
        /\ calls[p].writes # {}

====
